---- MODULE Spec2Model ----
(***************************************************************************)
(* A model of @udibo/http-error (src/mod.ts): the HttpError constructor    *)
(* with its argument normalisation (optionsFromArgs), HttpError.from,      *)
(* toJSON, getResponse and createHttpErrorClass.                           *)
(*                                                                         *)
(* JavaScript values are encoded as follows.                               *)
(*   - An optional value is a set: {} is undefined, {v} is the value v.    *)
(*   - A number is an integer; NaN and null are two integers outside the   *)
(*     modelled numeric range, and every comparison of numbers goes        *)
(*     through Lt/Ge, which are false on NaN as in IEEE-754.               *)
(*   - A plain object (extensions, a problem details payload, a header     *)
(*     record) is a function from its keys to its values.                  *)
(*   - An object with identity (an HttpError) lives in the sequence heap;  *)
(*     its index is its reference.                                         *)
(*   - The header maps and extensions objects that the caller or a class   *)
(*     passed in live in caller, as they are now, with the errors that     *)
(*     hold the very same object.                                          *)
(***************************************************************************)
EXTENDS Integers, Sequences, FiniteSets, TLC

VARIABLES heap, origin, op, arg, out, json, jsonOf, response, chain, caller

vars == <<heap, origin, op, arg, out, json, jsonOf, response, chain, caller>>

-----------------------------------------------------------------------------
(* Bounds of the model.                                                    *)

\* The most fields a caller sets in one options record.
MaxOptFields == 2

\* The most HttpError objects alive in one session.
MaxHeap == 2

-----------------------------------------------------------------------------
(* JavaScript values.                                                      *)

None == {}

Some(v) == {v}

Get(o) == CHOOSE v \in o : TRUE

\* a ?? b
OrElse(o, d) == IF o = None THEN d ELSE Get(o)

NaN == 0 - 1

Null == 0 - 2

IsNum(n) == n # NaN /\ n # Null

\* a < b and a >= b on numbers: both are false when an operand is NaN.
Lt(a, b) == IsNum(a) /\ IsNum(b) /\ a < b

Ge(a, b) == IsNum(a) /\ IsNum(b) /\ a >= b

\* Truthiness of a number-or-null and of a string.
TruthyNum(n) == IsNum(n) /\ n # 0

TruthyStr(s) == s # ""

\* {...a, ...b}
\* A wrong spread, for comparison: the first object wins on a common key.
SpreadKeepingFirst(a, b) ==
    [k \in (DOMAIN a) \cup (DOMAIN b) |-> IF k \in DOMAIN a THEN a[k] ELSE b[k]]

Spread(a, b) ==
    [k \in (DOMAIN a) \cup (DOMAIN b) |-> IF k \in DOMAIN b THEN b[k] ELSE a[k]]

EmptyObject == [k \in {} |-> ""]

Restrict(f, ks) == [k \in (DOMAIN f) \cap ks |-> f[k]]

-----------------------------------------------------------------------------
(* Status tables.                                                          *)

InternalServerError == 500

\* STATUS_TEXT of @std/http/status, on the statuses the model uses.
STATUS_TEXT(status) ==
    CASE status = 200 -> Some("OK")
      [] status = 400 -> Some("Bad Request")
      [] status = 404 -> Some("Not Found")
      [] status = 500 -> Some("Internal Server Error")
      [] status = 502 -> Some("Bad Gateway")
      [] OTHER -> None

\* DEFAULT_EXPOSED_MESSAGES, on the statuses the model uses.
DEFAULT_EXPOSED_MESSAGES(status) ==
    CASE status = 400 ->
           Some("The server cannot process the request due to a client error.")
      [] status = 404 -> Some("The requested resource could not be found.")
      [] status = 500 -> Some("The server encountered an unexpected condition.")
      [] status = 502 ->
           Some("The server received an invalid response from an upstream server.")
      [] OTHER -> None

defaultExposedMessageForStatus(status) ==
    OrElse(DEFAULT_EXPOSED_MESSAGES(status),
           IF Lt(status, 500) THEN "A client error occurred."
                              ELSE "A server error occurred.")

\* For comparison: the name of the range whatever the table says.
errorNameWithoutTable(status) ==
    IF Lt(status, 500) THEN "Unknown Client Error"
                       ELSE "Unknown Server Error"

errorNameForStatus(status) ==
    IF STATUS_TEXT(status) # None
    THEN Get(STATUS_TEXT(status))
    ELSE IF Lt(status, 500) THEN "Unknown Client Error"
                            ELSE "Unknown Server Error"

\* statusText.replace(/\W/g, ""): the text with its non-word characters removed.
StripNonWord(text) ==
    CASE text = "Bad Request" -> "BadRequest"
      [] text = "Not Found" -> "NotFound"
      [] text = "Internal Server Error" -> "InternalServerError"
      [] text = "Bad Gateway" -> "BadGateway"
      [] OTHER -> text

\* For comparison: no name is taken for an old-format name.
neverOldNameFormat(name, status) == FALSE

matchesOldNameFormat(name, status) ==
    IF name = None \/ ~TruthyStr(Get(name)) THEN FALSE
    ELSE IF STATUS_TEXT(status) = None THEN FALSE
    ELSE Get(name) = StripNonWord(Get(STATUS_TEXT(status))) \o "Error"

-----------------------------------------------------------------------------
(* Options records and constructor arguments.                              *)

OptionFields ==
    {"status", "message", "name", "expose", "statusText", "cause", "type",
     "instance", "extensions", "headers", "exposedMessage"}

\* {} as an options record: every field undefined.
NoOptions == [f \in OptionFields |-> None]

\* The arguments of a call: undefined, a number, a string or an options record.
Undefined == [kind |-> "undefined", val |-> 0]

Num(n) == [kind |-> "number", val |-> n]

Str(s) == [kind |-> "string", val |-> s]

Opts(o) == [kind |-> "options", val |-> o]

\* A wrong normalisation, for comparison: with a positional status the
\* message of the options record is not read.
optionsLosingMessage(statusOrMessageOrOptions, messageOrOptions, options) ==
    LET args == <<statusOrMessageOrOptions, messageOrOptions, options>>
        Of(kind) == {args[i].val : i \in {j \in 1..3 : args[j].kind = kind}}
        init == IF Of("options") = {} THEN NoOptions ELSE Get(Of("options"))
    IN  [init EXCEPT
            !.status = IF Of("number") # {} THEN Of("number") ELSE init.status,
            !.message = IF Of("string") # {} THEN Of("string")
                        ELSE IF Of("number") # {} THEN None
                        ELSE init.message]

\* A wrong merge, for comparison: { status, message, ...init }, the fields
\* of the options record over the positional arguments.
optionsWin(statusOrMessageOrOptions, messageOrOptions, options) ==
    LET args == <<statusOrMessageOrOptions, messageOrOptions, options>>
        Of(kind) == {args[i].val : i \in {j \in 1..3 : args[j].kind = kind}}
        init == IF Of("options") = {} THEN NoOptions ELSE Get(Of("options"))
    IN  [init EXCEPT
            !.status = IF init.status # None THEN init.status ELSE Of("number"),
            !.message = IF init.message # None THEN init.message ELSE Of("string")]

optionsFromArgs(statusOrMessageOrOptions, messageOrOptions, options) ==
    LET a1 == statusOrMessageOrOptions
        a2 == messageOrOptions
        AsInit(a) == IF a.kind = "options" THEN Some(a.val) ELSE None
        Field(init, f) == IF init = None THEN None ELSE Get(init)[f]
        \* init?.status ?? status, with status still undefined
        StatusOf(init) == IF Field(init, "status") = Some(Null)
                          THEN None ELSE Field(init, "status")
        \* <<init, status, message>> after the if/else chain
        r == IF a1.kind = "number"
             THEN IF a2.kind = "string"
                  THEN <<AsInit(options), Some(a1.val), Some(a2.val)>>
                  ELSE IF a2.kind = "options"
                       THEN <<AsInit(a2), Some(a1.val), Field(AsInit(a2), "message")>>
                       ELSE <<AsInit(options), Some(a1.val), None>>
             ELSE IF a1.kind = "string"
                  THEN <<AsInit(a2), StatusOf(AsInit(a2)), Some(a1.val)>>
                  ELSE IF a2.kind = "string"
                       THEN <<AsInit(options), None, Some(a2.val)>>
                       ELSE IF AsInit(options) = None
                            THEN LET init == IF a2.kind = "options"
                                             THEN AsInit(a2) ELSE AsInit(a1)
                                 IN  <<init, StatusOf(init), Field(init, "message")>>
                            ELSE <<AsInit(options), None, None>>
        base == IF r[1] = None THEN NoOptions ELSE Get(r[1])
    IN  [base EXCEPT !.status = r[2], !.message = r[3]]

\* The options record among the arguments of a call, if there is one.
SuppliedOptions(args) ==
    {args[i].val : i \in {j \in 1..3 : args[j].kind = "options"}}

\* The field f of that record: undefined when the call has no record.
Supplied(args, f) ==
    IF SuppliedOptions(args) = {} THEN None ELSE Get(SuppliedOptions(args))[f]

-----------------------------------------------------------------------------
(* Headers.                                                                *)

\* A header name as the Headers class stores it: in lower case.
LowerCase(name) ==
    CASE name = "Content-Type" -> "content-type"
      [] name = "X-A" -> "x-a"
      [] name = "X-Default" -> "x-default"
      [] OTHER -> name

\* A Headers object holds its entries under lower-case names.
HeadersObject(entries) == [kind |-> "Headers", entries |-> entries]

\* An object literal of header names and values.
HeadersRecord(entries) == [kind |-> "record", entries |-> entries]

\* new Headers(init) for an object literal init.
NewHeaders(record) ==
    [n \in {LowerCase(k) : k \in DOMAIN record} |->
        record[CHOOSE k \in DOMAIN record : LowerCase(k) = n]]

\* A wrong normalisation, for comparison: the content type of problem
\* details is set whatever the headers given.
headersWithContentType(headers) ==
    Spread(IF headers = None THEN EmptyObject
           ELSE IF Get(headers).kind = "Headers"
                THEN Get(headers).entries
                ELSE NewHeaders(Get(headers).entries),
           [k \in {"content-type"} |-> "application/problem+json"])

\* headers instanceof Headers ? headers : new Headers(headers ?? {}), then the
\* content-type default.
normalizeHeaders(headers) ==
    LET given == IF headers = None THEN EmptyObject
                 ELSE IF Get(headers).kind = "Headers"
                      THEN Get(headers).entries
                      ELSE NewHeaders(Get(headers).entries)
    IN  IF "content-type" \in DOMAIN given
        THEN given
        ELSE Spread(given, [k \in {"content-type"} |-> "application/problem+json"])

\* headers instanceof Headers ? headers : ...: the error keeps a Headers
\* object it is given as its own headers, and copies an object literal.
keepsHeaders(headers) == headers # None /\ Get(headers).kind = "Headers"

\* extensions ?? {}: the error keeps the extensions object it is given.
keepsExtensions(extensions) == extensions # None

\* The header map given to a construction, as the construction leaves it:
\* the content type is set on the Headers object that the error keeps.
givenHeadersAfter(headers) ==
    IF keepsHeaders(headers)
    THEN Some(HeadersObject(normalizeHeaders(headers)))
    ELSE headers

-----------------------------------------------------------------------------
(* The HttpError constructor.                                              *)

Thrown(e) == [thrown |-> TRUE, error |-> e]

Returned(v) == [thrown |-> FALSE, value |-> v]

RangeError == [kind |-> "RangeError", val |-> "invalid error status"]

\* status < 400 || status >= 600
invalidStatus(status) == Lt(status, 400) \/ Ge(status, 600)

\* A wrong precedence, for comparison: the message of an exposed error
\* before the exposedMessage option.
exposedMessageAfterMessage(exposedMessage, expose, message, status) ==
    IF expose /\ TruthyStr(message)
    THEN message
    ELSE OrElse(exposedMessage, defaultExposedMessageForStatus(status))

\* A precedence that leaks, for comparison: the message whether the error
\* is exposed or not.
exposedMessageLeaks(exposedMessage, expose, message, status) ==
    OrElse(exposedMessage,
           IF TruthyStr(message)
           THEN message
           ELSE defaultExposedMessageForStatus(status))

\* exposedMessage ?? (this.expose && this.message ? this.message : default)
exposedMessageFor(exposedMessage, expose, message, status) ==
    OrElse(exposedMessage,
           IF expose /\ TruthyStr(message)
           THEN message
           ELSE defaultExposedMessageForStatus(status))

\* For comparison: expose by the status alone.
exposeByStatus(expose, status) == Lt(status, 500)

\* expose ?? (status < 500)
exposeFor(expose, status) == OrElse(expose, Lt(status, 500))

\* The constructor body once the arguments are one options record (init).
HttpErrorInit(class, init) ==
    LET status == IF init.status = None \/ init.status = Some(Null)
                  THEN InternalServerError ELSE Get(init.status)
        message == OrElse(init.message, "")
        expose == exposeFor(init.expose, status)
    IN  IF invalidStatus(status)
        THEN Thrown(RangeError)
        ELSE Returned(
               [class |-> class,
                name |-> OrElse(init.name, errorNameForStatus(status)),
                message |-> message,
                cause |-> init.cause,
                status |-> status,
                statusText |-> IF init.statusText # None
                                  /\ TruthyStr(Get(init.statusText))
                               THEN init.statusText ELSE None,
                type |-> IF init.type # None /\ TruthyStr(Get(init.type))
                         THEN init.type ELSE None,
                instance |-> IF init.instance # None
                                /\ TruthyStr(Get(init.instance))
                             THEN init.instance ELSE None,
                expose |-> expose,
                extensions |-> OrElse(init.extensions, EmptyObject),
                headers |-> normalizeHeaders(init.headers),
                exposedMessage |->
                    exposedMessageFor(init.exposedMessage, expose, message,
                                      status)])

\* new HttpError(statusOrMessageOrOptions, messageOrOptions, options): the
\* arguments are made one options record, init, once.
NewHttpError(a1, a2, a3) ==
    CHOOSE result \in {HttpErrorInit("HttpError", init) :
                          init \in {optionsFromArgs(a1, a2, a3)}} : TRUE

\* new (createHttpErrorClass(defaultOptionsForClass))(a1, a2, a3)
NewCustomHttpError(defaultOptionsForClass, a1, a2, a3) ==
    LET constructorTimeOptions == optionsFromArgs(a1, a2, a3)
        dfo == defaultOptionsForClass
        Dflt(f) == IF dfo = None THEN None ELSE Get(dfo)[f]
        finalOptions ==
            [f \in OptionFields |->
                IF f = "extensions"
                THEN Some(Spread(OrElse(Dflt(f), EmptyObject),
                                 OrElse(constructorTimeOptions[f], EmptyObject)))
                ELSE IF constructorTimeOptions[f] # None
                     THEN constructorTimeOptions[f]
                     ELSE Dflt(f)]
    IN  CHOOSE result \in
            {HttpErrorInit("CustomHttpError", init) :
                init \in {optionsFromArgs(Opts(finalOptions),
                                          Undefined, Undefined)}} : TRUE

-----------------------------------------------------------------------------
(* toJSON and getResponse.                                                 *)

ReservedKeys == {"status", "title", "detail", "type", "instance"}

\* A wrong toJSON, for comparison: { status, title, detail, ...extensions },
\* the extensions over the members of the error.
toJSONExtensionsLast(this) ==
    LET own == [k \in {"status", "title", "detail"} |->
                   CASE k = "status" -> this.status
                     [] k = "title" -> this.name
                     [] k = "detail" -> this.exposedMessage]
        withType == IF this.type # None
                    THEN Spread(own, [k \in {"type"} |-> Get(this.type)])
                    ELSE own
        withInstance == IF this.instance # None
                        THEN Spread(withType,
                                    [k \in {"instance"} |-> Get(this.instance)])
                        ELSE withType
    IN  Spread(withInstance, this.extensions)

\* A toJSON that leaks, for comparison: the detail is the message.
toJSONWithMessage(this) ==
    Spread(this.extensions,
           [k \in {"status", "title", "detail"} |->
               CASE k = "status" -> this.status
                 [] k = "title" -> this.name
                 [] k = "detail" -> this.message])

\* For comparison: a toJSON that leaves out the type and instance keys of
\* the extensions.
toJSONOwnTypeOnly(this) ==
    LET kept == Restrict(this.extensions,
                         (DOMAIN this.extensions) \ {"type", "instance"})
        base == Spread(kept,
                       [k \in {"status", "title", "detail"} |->
                           CASE k = "status" -> this.status
                             [] k = "title" -> this.name
                             [] k = "detail" -> this.exposedMessage])
        withType == IF this.type # None
                    THEN Spread(base, [k \in {"type"} |-> Get(this.type)])
                    ELSE base
    IN  IF this.instance # None
        THEN Spread(withType, [k \in {"instance"} |-> Get(this.instance)])
        ELSE withType

toJSON(this) ==
    LET base == Spread(this.extensions,
                       [k \in {"status", "title", "detail"} |->
                           CASE k = "status" -> this.status
                             [] k = "title" -> this.name
                             [] k = "detail" -> this.exposedMessage])
        withType == IF this.type # None
                    THEN Spread(base, [k \in {"type"} |-> Get(this.type)])
                    ELSE base
    IN  IF this.instance # None
        THEN Spread(withType, [k \in {"instance"} |-> Get(this.instance)])
        ELSE withType

\* JSON.stringify of a payload: a text is held as the value it denotes, here
\* the object of the payload's entries, a NaN written as null.
JSONstringify(payload) ==
    [kind |-> "json",
     val |-> [kind |-> "object",
              val |-> [k \in DOMAIN payload |->
                          IF k = "status" /\ payload[k] = NaN
                          THEN Null ELSE payload[k]]]]

\* new Response(body, init) accepts a status in 200..599 only.
getResponse(this) ==
    IF ~(Ge(this.status, 200) /\ Lt(this.status, 600))
    THEN Thrown([kind |-> "RangeError", val |-> "invalid response status"])
    ELSE Returned([status |-> this.status,
                   statusText |-> this.statusText,
                   headers |-> this.headers,
                   body |-> JSONstringify(toJSON(this))])

-----------------------------------------------------------------------------
(* HttpError.from.                                                         *)

\* A value passed to from, or kept as a cause: its kind and what it holds.
\* An HttpError holds its reference, an Error its own and inherited
\* properties, a Response its status and body text, an object its entries.
HttpErrorRef(ref) == [kind |-> "HttpError", val |-> ref]

ErrorValue(e) == [kind |-> "Error", val |-> e]

ResponseValue(r) == [kind |-> "Response", val |-> r]

ObjectValue(entries) == [kind |-> "object", val |-> entries]

\* For comparison: the cause is lost.
noCause(value) == None

\* { cause: value }: an undefined value leaves the cause unset.
CauseOf(value) == IF value.kind = "undefined" THEN None ELSE Some(value)

isHttpErrorLike(value) ==
    \/ value.kind = "HttpError"
    \/ /\ value.kind = "Error"
       /\ value.val.status # None

\* For comparison: a detail alone also makes a payload.
isProblemDetailsByDetail(value) ==
    /\ value.kind = "object"
    /\ (DOMAIN value.val) \cap {"status", "title", "type", "detail"} # {}

isProblemDetails(value) ==
    /\ value.kind = "object"
    /\ (DOMAIN value.val) \cap {"status", "title", "type"} # {}

KeyOf(object, k) == IF k \in DOMAIN object THEN Some(object[k]) ELSE None

\* Wrong mappings, for comparison: the message read from the title, and
\* every key of the payload kept as an extension.
optionsWithTitleAsMessage(payload, status) ==
    [NoOptions EXCEPT
        !.status = status,
        !.name = KeyOf(payload, "title"),
        !.message = KeyOf(payload, "title"),
        !.type = KeyOf(payload, "type"),
        !.instance = KeyOf(payload, "instance"),
        !.extensions = Some(Restrict(payload, (DOMAIN payload) \ ReservedKeys))]

optionsWithAllKeys(payload, status) ==
    [NoOptions EXCEPT
        !.status = status,
        !.name = KeyOf(payload, "title"),
        !.message = KeyOf(payload, "detail"),
        !.type = KeyOf(payload, "type"),
        !.instance = KeyOf(payload, "instance"),
        !.extensions = Some(Restrict(payload, (DOMAIN payload) \ {"status"}))]

\* The options record built from a problem details payload; status is
\* what the branch passes for the status.
optionsFromProblemDetails(payload, status) ==
    [NoOptions EXCEPT
        !.status = status,
        !.name = KeyOf(payload, "title"),
        !.message = KeyOf(payload, "detail"),
        !.type = KeyOf(payload, "type"),
        !.instance = KeyOf(payload, "instance"),
        !.extensions = Some(Restrict(payload, (DOMAIN payload) \ ReservedKeys))]

\* The options record built from an error-like value.
optionsFromErrorLike(e) ==
    [NoOptions EXCEPT
        !.name = IF matchesOldNameFormat(e.name, Get(e.status))
                 THEN None ELSE e.name,
        !.message = Some(e.message),
        !.status = e.status,
        !.expose = e.expose,
        !.cause = e.cause,
        !.type = e.type,
        !.instance = e.instance,
        !.extensions = e.extensions,
        !.exposedMessage = e.exposedMessage,
        !.headers = e.headers]

SamePromise == [promise |-> TRUE]

\* A from that copies, for comparison: a new object with the fields of the
\* one passed in.
CopiedObject(ref) ==
    [promise |-> FALSE, same |-> FALSE, result |-> Returned(heap[ref])]

SameObject(ref) == [promise |-> FALSE, same |-> TRUE, ref |-> ref]

Constructed(r) == [promise |-> FALSE, same |-> FALSE, result |-> r]

\* HttpError.from(error), up to the return: the object passed in, the result
\* of a construction, or the promise of the Response branch.
HttpErrorFrom(error) ==
    IF error.kind = "HttpError"
    THEN SameObject(error.val)
    ELSE IF isHttpErrorLike(error)
    THEN Constructed(NewHttpError(Opts(optionsFromErrorLike(error.val)),
                                  Undefined, Undefined))
    ELSE IF error.kind = "Error"
    THEN Constructed(NewHttpError(Num(500), Str(error.val.message),
                                  Opts([NoOptions EXCEPT !.cause = Some(error)])))
    ELSE IF error.kind = "Response"
    THEN SamePromise
    ELSE IF isProblemDetails(error)
    THEN Constructed(NewHttpError(
             Opts(optionsFromProblemDetails(error.val,
                                            KeyOf(error.val, "status"))),
             Undefined, Undefined))
    ELSE Constructed(NewHttpError(Num(500), Str("unexpected error type"),
                                  Opts([NoOptions EXCEPT !.cause = CauseOf(error)])))

\* A wrong callback, for comparison: the status of the Response whatever
\* the payload says.
thenCallbackTransportStatus(parsed, res) ==
    IF ~isProblemDetails(parsed)
    THEN NewHttpError(Num(500), Str("invalid problem details response"),
                      Opts([NoOptions EXCEPT !.cause = CauseOf(parsed)]))
    ELSE NewHttpError(
             Opts(optionsFromProblemDetails(parsed.val, Some(res.status))),
             Undefined, Undefined)

\* A wrong callback, for comparison: a body that is no payload gives an
\* error with the status of the Response.
thenCallbackInvalidAsTransport(parsed, res) ==
    IF ~isProblemDetails(parsed)
    THEN NewHttpError(Num(res.status), Str("invalid problem details response"),
                      Opts([NoOptions EXCEPT !.cause = CauseOf(parsed)]))
    ELSE LET status == KeyOf(parsed.val, "status")
         IN  NewHttpError(
                 Opts(optionsFromProblemDetails(
                          parsed.val,
                          IF status # None /\ TruthyNum(Get(status))
                          THEN status ELSE Some(res.status))),
                 Undefined, Undefined)

\* The .then callback of the Response branch, given the parsed body.
thenCallback(parsed, res) ==
    IF ~isProblemDetails(parsed)
    THEN NewHttpError(Num(500), Str("invalid problem details response"),
                      Opts([NoOptions EXCEPT !.cause = CauseOf(parsed)]))
    ELSE LET status == KeyOf(parsed.val, "status")
         IN  NewHttpError(
                 Opts(optionsFromProblemDetails(
                          parsed.val,
                          \* status || error.status
                          IF status # None /\ TruthyNum(Get(status))
                          THEN status ELSE Some(res.status))),
                 Undefined, Undefined)

\* A callback that throws again, for comparison.
catchCallbackRethrows(parseError) == Thrown(parseError)

\* The .catch callback of the Response branch, given the rejection.
catchCallback(parseError) ==
    NewHttpError(Num(500), Str("could not parse problem details response"),
                 Opts([NoOptions EXCEPT !.cause = CauseOf(parseError)]))

\* JSON.parse of a body text: a text is held as the value it denotes, and a
\* text that is no JSON, or a body that cannot be read, denotes none.
JSONparse(text) ==
    IF text.kind = "json"
    THEN Returned(text.val)
    ELSE IF text.kind = "garbage"
    THEN Thrown([kind |-> "SyntaxError", val |-> "is not valid JSON"])
    ELSE Thrown([kind |-> "TypeError", val |-> "Body already consumed."])

-----------------------------------------------------------------------------
(* The inputs of the model: what a caller may pass.                        *)

PositionalStatuses == {NaN, 399, 400, 499, 500, 599, 600}

PositionalMessages == {"", "m1"}

\* Extensions objects: without keys, with a key of the caller's own, and with
\* keys that toJSON also writes, one of them with an empty value.
ExtValue(k) ==
    CASE k = "code" -> "X"
      [] k = "detail" -> "y"
      [] k = "type" -> "/ext-type"
      [] k = "instance" -> ""

ExtObjects ==
    {[k \in K |-> ExtValue(k)] :
        K \in {{}, {"code"}, {"detail"}, {"code", "type"}, {"instance"}}}

HeaderInputs ==
    {HeadersRecord([k \in {"X-A"} |-> "1"]),
     HeadersRecord([k \in {"Content-Type"} |-> "text/plain"]),
     HeadersObject([k \in {"x-a"} |-> "1"]),
     HeadersObject([k \in {"content-type"} |-> "text/plain"])}

FieldValues(f) ==
    CASE f = "status" -> {400, 502, 600}
      [] f = "message" -> {"", "m2"}
      [] f = "name" -> {"CustomError"}
      [] f = "expose" -> {TRUE, FALSE}
      [] f = "statusText" -> {"Teapot"}
      [] f = "cause" -> {Str("c1")}
      [] f = "type" -> {"", "/t"}
      [] f = "instance" -> {"/i"}
      [] f = "extensions" -> ExtObjects
      [] f = "headers" -> HeaderInputs
      [] f = "exposedMessage" -> {"", "safe"}

\* The options records that set one field more than a record of S.
OneMoreField(S) ==
    UNION {UNION {{[o EXCEPT ![f] = Some(v)] : v \in FieldValues(f)} :
                     f \in {g \in OptionFields : o[g] = None}} : o \in S}

RECURSIVE OptionsUpTo(_)
OptionsUpTo(n) ==
    IF n = 0 THEN {NoOptions}
    ELSE OptionsUpTo(n - 1) \cup OneMoreField(OptionsUpTo(n - 1))

OptionsRecords == OptionsUpTo(MaxOptFields)

OptionsArgs == {Undefined} \cup {Opts(o) : o \in OptionsRecords}

StatusArgs == {Undefined} \cup {Num(n) : n \in PositionalStatuses}

MessageArgs == {Undefined} \cup {Str(m) : m \in PositionalMessages}

\* The four call shapes of the constructor, each argument optional.
ConstructorArgs ==
    (StatusArgs \X MessageArgs \X OptionsArgs)
      \cup (StatusArgs \X OptionsArgs \X {Undefined})
      \cup (MessageArgs \X OptionsArgs \X {Undefined})
      \cup (OptionsArgs \X {Undefined} \X {Undefined})

\* Errors of other libraries: an Error with a name and a message, which may
\* carry a numeric status and the other fields from reads.
ErrorNames == {"Error", "BadRequestError", "InternalServerError"}

ErrorStatuses == {None} \cup {Some(n) : n \in {NaN, 200, 400, 500, 600}}

ErrorObjects ==
    {[name |-> Some(n), message |-> m, status |-> st, expose |-> o.expose,
      cause |-> o.cause, type |-> o.type, instance |-> o.instance,
      extensions |-> o.extensions, headers |-> o.headers,
      exposedMessage |-> o.exposedMessage] :
        n \in ErrorNames, m \in {"", "fail"}, st \in ErrorStatuses,
        o \in OptionsUpTo(MaxOptFields - 1)}

\* Plain objects: every choice of keys among the reserved keys and one other.
PayloadKeys == ReservedKeys \cup {"code"}

PayloadValues(k) ==
    CASE k = "status" -> {NaN, Null, 0, 200, 404, 599}
      [] k = "title" -> {"Title"}
      [] k = "detail" -> {"some detail"}
      [] k = "type" -> {"", "/t"}
      [] k = "instance" -> {"/i"}
      [] k = "code" -> {"X"}

OneMoreKey(S) ==
    UNION {UNION {{Spread(p, [j \in {k} |-> v]) : v \in PayloadValues(k)} :
                     k \in PayloadKeys \ DOMAIN p} : p \in S}

RECURSIVE ObjectsUpTo(_)
ObjectsUpTo(n) ==
    IF n = 0 THEN {EmptyObject}
    ELSE ObjectsUpTo(n - 1) \cup OneMoreKey(ObjectsUpTo(n - 1))

PlainObjects == ObjectsUpTo(Cardinality(PayloadKeys))

\* Values that are neither errors nor objects.
OtherValues ==
    {Undefined, [kind |-> "null", val |-> 0], Num(12345),
     [kind |-> "boolean", val |-> TRUE], [kind |-> "symbol", val |-> "test-symbol"],
     [kind |-> "function", val |-> "() => {}"]}

\* What a JSON text may denote: no NaN, which JSON cannot write.
JSONValues ==
    {ObjectValue(p) : p \in {q \in PlainObjects :
                                 "status" \in DOMAIN q => q["status"] # NaN}}
      \cup {[kind |-> "null", val |-> 0], Num(12345)}

\* A body text is held as the value it denotes.
BodyTexts ==
    {[kind |-> "json", val |-> v] : v \in JSONValues}
      \cup {[kind |-> "garbage", val |-> 0], [kind |-> "used", val |-> 0]}

TransportStatuses == {200, 400, 500}

Responses ==
    {[status |-> st, statusText |-> None, headers |-> EmptyObject, body |-> b] :
        st \in TransportStatuses, b \in BodyTexts}

\* What from may be given at the start of a session.
ForeignValues ==
    {ErrorValue(e) : e \in ErrorObjects}
      \cup {ObjectValue(p) : p \in PlainObjects}
      \cup {ResponseValue(r) : r \in Responses}
      \cup OtherValues

\* The default options of the classes made with createHttpErrorClass: none,
\* a few, a Headers object, and one for every field.
ClassDefaults ==
    {None,
     Some([NoOptions EXCEPT
              !.headers = Some(HeadersObject([k \in {"x-default"} |-> "1"]))]),
     Some([NoOptions EXCEPT
              !.status = Some(499),
              !.name = Some("MyApiError"),
              !.extensions = Some([k \in {"code"} |-> "API_GENERAL_FAILURE"])]),
     Some([status |-> Some(502),
           message |-> Some("default message"),
           name |-> Some("AllDefaultsError"),
           expose |-> Some(TRUE),
           statusText |-> Some("Default Status Text"),
           cause |-> Some(Str("default cause")),
           type |-> Some("/errors/default"),
           instance |-> Some("/errors/default/1"),
           extensions |-> Some([k \in {"code", "detail"} |-> "default"]),
           headers |-> Some(HeadersRecord([k \in {"X-Default"} |-> "1"])),
           exposedMessage |-> Some("default exposed message")])}

\* The arguments given to such a class: the four call shapes again, the
\* options record one field smaller.
CustomArgs ==
    LET O == {Undefined} \cup {Opts(o) : o \in OptionsUpTo(MaxOptFields - 1)}
    IN  (StatusArgs \X MessageArgs \X O)
          \cup (StatusArgs \X O \X {Undefined})
          \cup (MessageArgs \X O \X {Undefined})
          \cup (O \X {Undefined} \X {Undefined})

-----------------------------------------------------------------------------
(* The state machine.  A session starts with one call on a caller's values *)
(* (a construction, or from on a foreign value) and goes on with calls on  *)
(* what the earlier calls returned; Release ends it.                       *)

NoResult == [tag |-> "none"]

ResultRef(ref) == [tag |-> "ref", ref |-> ref]

ResultThrow(e) == [tag |-> "throw", error |-> e]

ResultPromise == [tag |-> "promise"]

NoPromise == [state |-> "none", val |-> Undefined]

Pending == [state |-> "pending", val |-> Undefined]

Fulfilled(v) == [state |-> "fulfilled", val |-> v]

Rejected(e) == [state |-> "rejected", val |-> e]

\* The place of the Response of a chain when there is no chain.
NoResponse ==
    [status |-> 0, statusText |-> None, headers |-> EmptyObject,
     body |-> [kind |-> "none", val |-> 0]]

NoChain == [json |-> NoPromise, then |-> NoPromise, catch |-> NoPromise,
            res |-> NoResponse]

\* The arguments of a construction, and those of a construction through a
\* class with its default options, as the input of an operation.
Arguments(args) == [kind |-> "arguments", val |-> args]

ClassArguments(dfo, args) ==
    [kind |-> "class arguments", val |-> [defaults |-> dfo, args |-> args]]

\* What the caller holds besides the errors: the header map and the
\* extensions object passed in the arguments, those of the default options
\* of the class, each as it is now, and shared, the triples <<ref, field,
\* owner>> of the errors whose field is the very object of the owner.
NoCaller ==
    [headers |-> None, extensions |-> None,
     classHeaders |-> None, classExtensions |-> None, shared |-> {}]

\* The place in caller of a field of an owner.
CallerField(owner, field) ==
    IF owner = "arg" THEN field
    ELSE IF field = "headers" THEN "classHeaders" ELSE "classExtensions"

\* The caller's values after the construction r of the error ref, to whose
\* constructor the header map headers of owner and the extensions reach;
\* extensions is undefined when the object that reaches it is a new one.
AfterConstruction(before, r, ref, headers, owner, extensions) ==
    IF r.thrown THEN before
    ELSE [before EXCEPT
            ![CallerField(owner, "headers")] =
                IF keepsHeaders(headers) THEN givenHeadersAfter(headers) ELSE @,
            !.shared = @ \cup (IF keepsHeaders(headers)
                               THEN {<<ref, "headers", owner>>} ELSE {})
                         \cup (IF keepsExtensions(extensions)
                               THEN {<<ref, "extensions", owner>>} ELSE {})]

\* The arguments and the default options with the header maps and extensions
\* objects as the caller holds them now.
WithCallerValues(args) ==
    [i \in 1..3 |->
        IF args[i].kind = "options"
        THEN Opts([args[i].val EXCEPT !.headers = caller.headers,
                                      !.extensions = caller.extensions])
        ELSE args[i]]

DefaultsWithCallerValues(dfo) ==
    IF dfo = None THEN None
    ELSE Some([Get(dfo) EXCEPT !.headers = caller.classHeaders,
                               !.extensions = caller.classExtensions])

Init ==
    /\ caller = NoCaller
    /\ heap = <<>>
    /\ origin = <<>>
    /\ op = "init"
    /\ arg = Undefined
    /\ out = NoResult
    /\ json = None
    /\ jsonOf = 0
    /\ response = None
    /\ chain = NoChain

\* The outcome r of a construction called as operation o on input a: the
\* new object joins the heap, or the exception reaches the caller.
Allocate(o, a, r) ==
    /\ op' = o
    /\ arg' = a
    /\ IF r.thrown
       THEN /\ out' = ResultThrow(r.error)
            /\ UNCHANGED <<heap, origin>>
       ELSE /\ heap' = Append(heap, r.value)
            /\ origin' = Append(origin, [op |-> o, arg |-> a])
            /\ out' = ResultRef(Len(heap) + 1)

\* new HttpError(...)
Construct ==
    /\ heap = <<>>
    /\ op = "init"
    /\ \E args \in ConstructorArgs :
          LET r == NewHttpError(args[1], args[2], args[3])
              init == optionsFromArgs(args[1], args[2], args[3])
              before == [NoCaller EXCEPT
                            !.headers = Supplied(args, "headers"),
                            !.extensions = Supplied(args, "extensions")]
          IN  /\ Allocate("new", Arguments(args), r)
              /\ caller' = AfterConstruction(before, r, Len(heap) + 1,
                                             init.headers, "arg", init.extensions)
    /\ UNCHANGED <<json, jsonOf, response, chain>>

\* new (createHttpErrorClass(defaults))(...)
ConstructCustom ==
    /\ heap = <<>>
    /\ op = "init"
    /\ \E dfo \in ClassDefaults, args \in CustomArgs :
          LET r == NewCustomHttpError(dfo, args[1], args[2], args[3])
              constructorTimeOptions == optionsFromArgs(args[1], args[2], args[3])
              Dflt(f) == IF dfo = None THEN None ELSE Get(dfo)[f]
              before == [headers |-> Supplied(args, "headers"),
                         extensions |-> Supplied(args, "extensions"),
                         classHeaders |-> Dflt("headers"),
                         classExtensions |-> Dflt("extensions"),
                         shared |-> {}]
              ofArgs == constructorTimeOptions.headers # None
          IN  /\ Allocate("newCustom", ClassArguments(dfo, args), r)
              \* finalOptions.extensions is a new object
              /\ caller' = AfterConstruction(
                               before, r, Len(heap) + 1,
                               IF ofArgs THEN constructorTimeOptions.headers
                                         ELSE Dflt("headers"),
                               IF ofArgs THEN "arg" ELSE "class", None)
    /\ UNCHANGED <<json, jsonOf, response, chain>>

\* A second construction from the same arguments, and through the same
\* class, with the caller's values as they are now.
ConstructAgain ==
    /\ op \in {"new", "newCustom"}
    /\ out.tag = "ref"
    /\ Len(heap) < MaxHeap
    /\ IF op = "new"
       THEN LET args == WithCallerValues(arg.val)
                r == NewHttpError(args[1], args[2], args[3])
                init == optionsFromArgs(args[1], args[2], args[3])
            IN  /\ Allocate("new again", arg, r)
                /\ caller' = AfterConstruction(caller, r, Len(heap) + 1,
                                               init.headers, "arg",
                                               init.extensions)
       ELSE LET args == WithCallerValues(arg.val.args)
                dfo == DefaultsWithCallerValues(arg.val.defaults)
                r == NewCustomHttpError(dfo, args[1], args[2], args[3])
                constructorTimeOptions ==
                    optionsFromArgs(args[1], args[2], args[3])
                ofArgs == constructorTimeOptions.headers # None
            IN  /\ Allocate("new again", arg, r)
                /\ caller' = AfterConstruction(
                                 caller, r, Len(heap) + 1,
                                 IF ofArgs THEN constructorTimeOptions.headers
                                           ELSE caller.classHeaders,
                                 IF ofArgs THEN "arg" ELSE "class", None)
    /\ UNCHANGED <<json, jsonOf, response, chain>>

\* The session holds no payload, response or promise yet.
NothingDerived ==
    /\ json = None
    /\ response = None
    /\ chain.catch.state = "none"
    /\ op # "change"

\* error.toJSON()
ToJSON ==
    /\ NothingDerived
    /\ \E ref \in 1..Len(heap) :
          /\ json' = Some(toJSON(heap[ref]))
          /\ jsonOf' = ref
          /\ arg' = HttpErrorRef(ref)
    /\ op' = "toJSON"
    /\ out' = NoResult
    /\ response' = None
    /\ UNCHANGED <<heap, origin, chain, caller>>

\* error.getResponse()
GetResponse ==
    /\ NothingDerived
    /\ \E ref \in 1..Len(heap) :
          LET r == getResponse(heap[ref])
          IN  /\ arg' = HttpErrorRef(ref)
              /\ IF r.thrown
                 THEN /\ out' = ResultThrow(r.error)
                      /\ response' = None
                 ELSE /\ out' = NoResult
                      /\ response' = Some(r.value)
    /\ op' = "getResponse"
    /\ json' = None
    /\ jsonOf' = 0
    /\ UNCHANGED <<heap, origin, chain, caller>>

\* What from may be given in the state: a foreign value when the session
\* starts, and then the objects, payloads and responses the session made.
FromInputs ==
    IF op = "init"
    THEN ForeignValues
    ELSE IF NothingDerived
    THEN {HttpErrorRef(ref) : ref \in 1..Len(heap)}
    ELSE {ObjectValue(p) : p \in json} \cup {ResponseValue(r) : r \in response}

\* HttpError.from(error), up to its return
From ==
    /\ \E error \in FromInputs :
          LET r == HttpErrorFrom(error)
          IN  IF r.promise
              THEN /\ Len(heap) < MaxHeap
                   /\ op' = "from"
                   /\ arg' = error
                   /\ out' = ResultPromise
                   /\ chain' = [json |-> Pending, then |-> Pending,
                                catch |-> Pending, res |-> error.val]
                   /\ UNCHANGED <<heap, origin, caller>>
              ELSE IF r.same
              THEN /\ op' = "from"
                   /\ arg' = error
                   /\ out' = ResultRef(r.ref)
                   /\ UNCHANGED <<heap, origin, chain, caller>>
              ELSE /\ Len(heap) < MaxHeap
                   /\ Allocate("from", error, r.result)
                   /\ UNCHANGED chain
                   \* the options of the error-like branch hold the headers
                   \* and the extensions of the value; the other branches
                   \* pass objects of their own making
                   /\ IF error.kind = "Error" /\ isHttpErrorLike(error)
                      THEN caller' = AfterConstruction(
                                        [NoCaller EXCEPT
                                            !.headers = error.val.headers,
                                            !.extensions = error.val.extensions],
                                        r.result, Len(heap) + 1,
                                        error.val.headers, "arg",
                                        error.val.extensions)
                      ELSE UNCHANGED caller
    /\ chain.catch.state # "pending"
    /\ UNCHANGED <<json, jsonOf, response>>

\* The body of the Response is read and parsed: error.json() settles.
JsonSettles ==
    /\ chain.json.state = "pending"
    /\ LET r == JSONparse(chain.res.body)
       IN  chain' = [chain EXCEPT !.json = IF r.thrown THEN Rejected(r.error)
                                           ELSE Fulfilled(r.value)]
    /\ op' = "json settles"
    /\ UNCHANGED <<heap, origin, arg, out, json, jsonOf, response, caller>>

\* The reaction of .then(...): the callback runs on a parsed body, and a
\* rejection passes through.
ThenReaction ==
    /\ chain.json.state \in {"fulfilled", "rejected"}
    /\ chain.then.state = "pending"
    /\ op' = "then"
    /\ IF chain.json.state = "rejected"
       THEN /\ chain' = [chain EXCEPT !.then = chain.json]
            /\ UNCHANGED <<heap, origin>>
       ELSE LET r == thenCallback(chain.json.val, chain.res)
            IN  IF r.thrown
                THEN /\ chain' = [chain EXCEPT !.then = Rejected(r.error)]
                     /\ UNCHANGED <<heap, origin>>
                ELSE /\ heap' = Append(heap, r.value)
                     /\ origin' = Append(origin, [op |-> "then", arg |-> arg])
                     /\ chain' = [chain EXCEPT
                                     !.then = Fulfilled(HttpErrorRef(Len(heap) + 1))]
    /\ UNCHANGED <<arg, out, json, jsonOf, response, caller>>

\* The reaction of .catch(...): the callback runs on a rejection, and a
\* fulfilment passes through.  The promise from returned settles.
CatchReaction ==
    /\ chain.then.state \in {"fulfilled", "rejected"}
    /\ chain.catch.state = "pending"
    /\ op' = "catch"
    /\ IF chain.then.state = "fulfilled"
       THEN /\ chain' = [chain EXCEPT !.catch = chain.then]
            /\ UNCHANGED <<heap, origin>>
       ELSE LET r == catchCallback(chain.then.val)
            IN  IF r.thrown
                THEN /\ chain' = [chain EXCEPT !.catch = Rejected(r.error)]
                     /\ UNCHANGED <<heap, origin>>
                ELSE /\ heap' = Append(heap, r.value)
                     /\ origin' = Append(origin, [op |-> "catch", arg |-> arg])
                     /\ chain' = [chain EXCEPT
                                     !.catch = Fulfilled(HttpErrorRef(Len(heap) + 1))]
    /\ UNCHANGED <<arg, out, json, jsonOf, response, caller>>

\* A header or an extension with one entry more.
ChangedEntries(entries) == Spread(entries, [k \in {"x-changed"} |-> "1"])

\* The caller changes an error it holds: error.headers.set("x-changed", "1")
\* or error.extensions["x-changed"] = "1".  An object that others hold too
\* changes for them all.
Change ==
    /\ NothingDerived
    /\ \E ref \in 1..Len(heap), field \in {"headers", "extensions"} :
          LET owners == {t[3] : t \in {u \in caller.shared :
                                          u[1] = ref /\ u[2] = field}}
              refs == {ref} \cup {t[1] : t \in {u \in caller.shared :
                                                  u[2] = field /\ u[3] \in owners}}
              places == {CallerField(o, field) : o \in owners}
          IN  /\ heap' = [r \in 1..Len(heap) |->
                            IF r \in refs
                            THEN [heap[r] EXCEPT ![field] = ChangedEntries(@)]
                            ELSE heap[r]]
              /\ caller' = [f \in DOMAIN caller |->
                              IF f \notin places THEN caller[f]
                              ELSE IF field = "headers"
                              THEN Some(HeadersObject(
                                       ChangedEntries(Get(caller[f]).entries)))
                              ELSE Some(ChangedEntries(Get(caller[f])))]
              /\ arg' = HttpErrorRef(ref)
    /\ op' = "change"
    /\ out' = NoResult
    /\ UNCHANGED <<origin, json, jsonOf, response, chain>>

\* The caller drops what the session made.  A promise that is pending
\* settles whether the caller holds it or not, so the session lasts until
\* then.
Release ==
    /\ op # "init"
    /\ chain.catch.state # "pending"
    /\ heap' = <<>>
    /\ origin' = <<>>
    /\ op' = "init"
    /\ arg' = Undefined
    /\ out' = NoResult
    /\ json' = None
    /\ jsonOf' = 0
    /\ response' = None
    /\ chain' = NoChain
    /\ caller' = NoCaller

Next ==
    \/ Construct
    \/ ConstructCustom
    \/ ConstructAgain
    \/ Change
    \/ ToJSON
    \/ GetResponse
    \/ From
    \/ JsonSettles
    \/ ThenReaction
    \/ CatchReaction
    \/ Release

Spec == Init /\ [][Next]_vars

\* The states of the three promises of the chain; every reaction changes
\* one of them.
promiseStates == <<chain.json.state, chain.then.state, chain.catch.state>>

\* The reactions of a settled promise are run: the job queue of the runtime
\* leaves none waiting.  That the body of a Response is ever read is not
\* assumed.
FairSpec ==
    Spec /\ WF_promiseStates(ThenReaction) /\ WF_promiseStates(CatchReaction)

-----------------------------------------------------------------------------
(* What the claims speak of.                                               *)

\* A status of the range of HTTP error statuses.
InErrorRange(status) == status \in 400..599

\* The status and the message given as positional arguments, if any.
PositionalStatus(args) ==
    {args[i].val : i \in {j \in 1..3 : args[j].kind = "number"}}

PositionalMessage(args) ==
    {args[i].val : i \in {j \in 1..3 : args[j].kind = "string"}}

\* The last operation was a construction with new HttpError and returned.
Constructed1 == op = "new" /\ out.tag = "ref"

\* C1: every construction fails with the RangeError exactly when the resolved
\* status is below 400 or at least 600 and otherwise yields a status in
\* 400..599, so that every HttpError in existence has a status in 400..599.
C1_StatusInRange ==
    /\ \A ref \in 1..Len(heap) : InErrorRange(heap[ref].status)
    /\ out.tag = "throw" /\ op \in {"new", "newCustom"} => out.error = RangeError

\* C2: two errors built from arguments that differ in message and cause
\* only, not exposed and without an exposedMessage option, have equal
\* toJSON payloads and equal responses; the detail is the exposedMessage and
\* the payload has no cause.
OtherMessages == {"", "m1", "m2", "secret"}

OtherCauses == {None, Some(Str("c1")), Some(Str("c2"))}

\* The arguments args with the positional message s, and the message m and
\* the cause c in the options record.
Variant(args, s, m, c) ==
    [i \in 1..3 |->
        IF args[i].kind = "string" THEN Str(s)
        ELSE IF args[i].kind = "options"
        THEN Opts([args[i].val EXCEPT !.message = m, !.cause = c])
        ELSE args[i]]

Variants(args) ==
    {Variant(args, s, m, c) :
        s \in OtherMessages,
        m \in {None} \cup {Some(t) : t \in OtherMessages},
        c \in OtherCauses}

C2_NoLeak ==
    Constructed1 /\ ~heap[out.ref].expose /\ Supplied(arg.val, "exposedMessage") = None
      => LET x == heap[out.ref]
         IN  /\ toJSON(x)["detail"] = x.exposedMessage
             /\ "cause" \notin DOMAIN toJSON(x)
             /\ \A v \in Variants(arg.val) :
                   LET r == NewHttpError(v[1], v[2], v[3])
                   IN  /\ ~r.thrown
                       /\ toJSON(r.value) = toJSON(x)
                       /\ getResponse(r.value) = getResponse(x)

C2_Witness ==
    /\ Constructed1
    /\ heap[out.ref].status = 500
    /\ heap[out.ref].message = "m1"
    /\ heap[out.ref].cause # None
    /\ ~heap[out.ref].expose

\* C3: the exposedMessage of a constructed error is the exposedMessage
\* option if given, else the message if the error is exposed and the message
\* is not empty, else the safe default of the status.
SafeDefault(status) ==
    IF DEFAULT_EXPOSED_MESSAGES(status) # None
    THEN Get(DEFAULT_EXPOSED_MESSAGES(status))
    ELSE IF Lt(status, 500) THEN "A client error occurred."
                            ELSE "A server error occurred."

ExpectedExposedMessage(given, x) ==
    IF given # None THEN Get(given)
    ELSE IF x.expose /\ x.message # "" THEN x.message
    ELSE SafeDefault(x.status)

C3_ExposedMessagePrecedence ==
    Constructed1 /\ InErrorRange(heap[out.ref].status)
      => heap[out.ref].exposedMessage =
            ExpectedExposedMessage(Supplied(arg.val, "exposedMessage"), heap[out.ref])

C3_Witness ==
    /\ Constructed1
    /\ Supplied(arg.val, "exposedMessage") = Some("safe")
    /\ heap[out.ref].expose
    /\ heap[out.ref].message = "m1"
    /\ heap[out.ref].exposedMessage = "safe"

\* C4: from never throws: a synchronous call returns an HttpError, a call on
\* a Response returns a promise.
C4_FromNeverThrows ==
    op = "from"
      => /\ out.tag # "throw"
         /\ arg.kind = "Response" <=> out.tag = "promise"

\* C5: a status or message given as a positional argument wins over the
\* same field of the options record.
C5_PositionalWins ==
    op = "new"
      => /\ PositionalStatus(arg.val) # {} /\ Supplied(arg.val, "status") # None
              => /\ optionsFromArgs(arg.val[1], arg.val[2], arg.val[3]).status
                       = PositionalStatus(arg.val)
                 /\ out.tag = "ref"
                       => heap[out.ref].status = Get(PositionalStatus(arg.val))
         /\ PositionalMessage(arg.val) # {} /\ Supplied(arg.val, "message") # None
              => /\ optionsFromArgs(arg.val[1], arg.val[2], arg.val[3]).message
                       = PositionalMessage(arg.val)
                 /\ out.tag = "ref"
                       => heap[out.ref].message = Get(PositionalMessage(arg.val))

C5_Witness ==
    /\ Constructed1
    /\ arg.val[1] = Num(400)
    /\ arg.val[2] = Str("m1")
    /\ Supplied(arg.val, "status") = Some(502)
    /\ Supplied(arg.val, "message") = Some("m2")
    /\ heap[out.ref].status = 400
    /\ heap[out.ref].message = "m1"

\* The last operation was from on the payload that toJSON returned.
FromOfPayload == op = "from" /\ arg.kind = "object" /\ json # None

\* The fields of the round trip agree: y is read back from the payload of x.
RoundTripAgrees(x, y) ==
    /\ y.name = x.name
    /\ y.status = x.status
    /\ y.type = x.type
    /\ y.instance = x.instance
    /\ y.extensions = x.extensions
    /\ y.message = x.exposedMessage

\* C6 as stated: for every HttpError x, from(x.toJSON()) has the name,
\* status, type, instance and extensions of x, and x.exposedMessage as its
\* message.
C6_RoundTrip ==
    FromOfPayload
      => /\ out.tag = "ref"
         /\ RoundTripAgrees(heap[jsonOf], heap[out.ref])

\* C6, amended: the same, for every HttpError x whose extensions have none
\* of the keys status, title, detail, type and instance.
C6_RoundTripUnreservedKeys ==
    FromOfPayload /\ (DOMAIN heap[jsonOf].extensions) \cap ReservedKeys = {}
      => /\ out.tag = "ref"
         /\ RoundTripAgrees(heap[jsonOf], heap[out.ref])

C6_Witness ==
    /\ FromOfPayload
    /\ out.tag = "ref"
    /\ DOMAIN heap[jsonOf].extensions = {"code"}
    /\ heap[jsonOf].type # None
    /\ heap[jsonOf].message # heap[jsonOf].exposedMessage
    /\ heap[out.ref].message = heap[jsonOf].exposedMessage

\* C7: from on an HttpError, of a custom class or not, returns that very
\* object and makes no other; so from(from(x)) is the object from(x).
C7_FromIsIdentity ==
    [][op' = "from" /\ arg'.kind = "HttpError"
         => /\ out' = ResultRef(arg'.val)
            /\ heap' = heap]_vars

C7_Witness ==
    /\ op = "from"
    /\ arg.kind = "HttpError"
    /\ origin[arg.val].op = "from"
    /\ out = ResultRef(arg.val)

\* The last operation was from on an Error with a numeric status.
FromOfErrorLike == op = "from" /\ arg.kind = "Error" /\ arg.val.status # None

\* A status the constructor refuses.
OutOfRange(status) == IsNum(status) /\ (status < 400 \/ status >= 600)

\* The headers an error has when h was given: h under lower-case names, and
\* the content type of problem details unless h has one.
ExpectedHeaders(h) ==
    LET given == IF h = None THEN EmptyObject
                 ELSE [n \in {LowerCase(k) : k \in DOMAIN Get(h).entries} |->
                          Get(h).entries[CHOOSE k \in DOMAIN Get(h).entries :
                                            LowerCase(k) = n]]
    IN  [n \in DOMAIN given \cup {"content-type"} |->
            IF n \in DOMAIN given THEN given[n] ELSE "application/problem+json"]

\* y has the fields of the error-like e other than the name, a field that e
\* lacks at its default; an empty type or instance counts as one that e lacks.
ErrorLikeFieldsKept(e, y) ==
    /\ y.message = e.message
    /\ y.status = Get(e.status)
    /\ y.expose = OrElse(e.expose, Lt(Get(e.status), 500))
    /\ y.cause = e.cause
    /\ y.type = IF e.type # Some("") THEN e.type ELSE None
    /\ y.instance = IF e.instance # Some("") THEN e.instance ELSE None
    /\ y.extensions = OrElse(e.extensions, EmptyObject)
    /\ y.headers = ExpectedHeaders(e.headers)
    /\ y.exposedMessage = ExpectedExposedMessage(e.exposedMessage, y)

\* The result of the last operation is an object that the operation made.
Fresh == out.tag = "ref" /\ out.ref = Len(heap) /\ origin[out.ref].op = op

ExpectedName(name, status) ==
    IF /\ STATUS_TEXT(status) # None
       /\ name = StripNonWord(Get(STATUS_TEXT(status))) \o "Error"
    THEN Get(STATUS_TEXT(status))
    ELSE name

FromOfProblemDetails ==
    /\ op = "from"
    /\ arg.kind = "object"
    /\ (DOMAIN arg.val) \cap {"status", "title", "type"} # {}

\* The status of the payload p; d when p has none, or null.
StatusOr(p, d) ==
    IF "status" \in DOMAIN p /\ p["status"] # Null THEN p["status"] ELSE d

\* y is mapped from the payload p with the status st; an empty type or
\* instance counts as one that p lacks.
PayloadMapped(p, st, y) ==
    /\ y.status = st
    /\ y.name = IF "title" \in DOMAIN p THEN p["title"] ELSE errorNameForStatus(st)
    /\ y.message = IF "detail" \in DOMAIN p THEN p["detail"] ELSE ""
    /\ y.type = IF "type" \in DOMAIN p /\ p["type"] # ""
                THEN Some(p["type"]) ELSE None
    /\ y.instance = IF "instance" \in DOMAIN p /\ p["instance"] # ""
                    THEN Some(p["instance"]) ELSE None
    /\ y.extensions = Restrict(p, (DOMAIN p) \ ReservedKeys)
    /\ y.expose = Lt(st, 500)

ResolvedFromPayload ==
    /\ chain.catch.state = "fulfilled"
    /\ chain.json.state = "fulfilled"
    /\ isProblemDetails(chain.json.val)

Resolved == chain.catch.state = "fulfilled"

\* The cause as a read of error.cause gives it: undefined when none is set.
ReadCause(y) == IF y.cause = None THEN Undefined ELSE Get(y.cause)

UnexpectedValue(value) ==
    /\ value.kind \notin {"HttpError", "Error", "Response"}
    /\ \/ value.kind # "object"
       \/ (DOMAIN value.val) \cap {"status", "title", "type"} = {}

\* C12: from on a value that is no HttpError, Error, Response or payload
\* returns an HttpError of status 500 and message 'unexpected error type'
\* whose cause is the value.
C12_UnexpectedValueWrapped ==
    op = "from" /\ UnexpectedValue(arg)
      => /\ Fresh
         /\ heap[out.ref].status = 500
         /\ heap[out.ref].message = "unexpected error type"
         /\ ReadCause(heap[out.ref]) = arg

C12_Witness ==
    /\ op = "from"
    /\ arg.kind = "object"
    /\ DOMAIN arg.val = {}
    /\ Fresh
    /\ heap[out.ref].message = "unexpected error type"
    /\ heap[out.ref].cause = Some(arg)

\* C13: from on an Error without a numeric status returns an HttpError of
\* status 500 with the message of the Error, the Error as cause and expose
\* false, whose toJSON detail is the safe default of status 500 and not the
\* message.
C13_PlainErrorWrapped ==
    op = "from" /\ arg.kind = "Error" /\ arg.val.status = None
      => /\ Fresh
         /\ heap[out.ref].status = 500
         /\ heap[out.ref].message = arg.val.message
         /\ ReadCause(heap[out.ref]) = arg
         /\ ~heap[out.ref].expose
         /\ toJSON(heap[out.ref])["detail"]
               = "The server encountered an unexpected condition."

C13_Witness ==
    /\ op = "from"
    /\ arg.kind = "Error"
    /\ arg.val.status = None
    /\ arg.val.message = "fail"
    /\ Fresh
    /\ heap[out.ref].message = "fail"
    /\ heap[out.ref].exposedMessage # "fail"

\* The payload p has the members of x under status, title and detail.
OwnMembers(x, p) ==
    /\ p["status"] = x.status
    /\ p["title"] = x.name
    /\ p["detail"] = x.exposedMessage

\* The payload p has the extensions of x but those under the keys of taken.
ExtensionsBut(x, p, taken) ==
    \A k \in (DOMAIN x.extensions) \ taken :
        k \in DOMAIN p /\ p[k] = x.extensions[k]

\* C14 as stated: the payload of toJSON has every key of the extensions with
\* its value, but that status, title and detail are the status, name and
\* exposedMessage of the error even when an extension has such a key.
C14_ToJSONTotal ==
    op = "toJSON"
      => /\ json # None
         /\ OwnMembers(heap[jsonOf], Get(json))
         /\ ExtensionsBut(heap[jsonOf], Get(json), {"status", "title", "detail"})

\* C14, amended: the same, but that type and instance too are those of the
\* error when it has them, even when an extension has such a key.
C14_ToJSONTotalButTypeInstance ==
    op = "toJSON"
      => LET x == heap[jsonOf]
         IN  /\ json # None
             /\ OwnMembers(x, Get(json))
             /\ x.type # None => Get(json)["type"] = Get(x.type)
             /\ x.instance # None => Get(json)["instance"] = Get(x.instance)
             /\ ExtensionsBut(x, Get(json),
                              {"status", "title", "detail"}
                                \cup (IF x.type # None THEN {"type"} ELSE {})
                                \cup (IF x.instance # None THEN {"instance"} ELSE {}))

C14_Witness ==
    /\ op = "toJSON"
    /\ DOMAIN heap[jsonOf].extensions = {"code", "type"}
    /\ heap[jsonOf].type = Some("/t")
    /\ Get(json)["type"] = "/t"
    /\ Get(json)["code"] = "X"

\* C15: an error constructed with a status of 400..599 and no more has
\* expose = (status < 500); with an expose option the error has the expose
\* given, whatever the status.
\* A call with a status and no more.
OnlyStatus(args) ==
    /\ PositionalStatus(args) # {}
    /\ PositionalMessage(args) = {}
    /\ SuppliedOptions(args) = {}

C15_ExposeDefault ==
    Constructed1
      => /\ Supplied(arg.val, "expose") # None
              => heap[out.ref].expose = Get(Supplied(arg.val, "expose"))
         /\ OnlyStatus(arg.val) /\ InErrorRange(heap[out.ref].status)
              => heap[out.ref].expose = (heap[out.ref].status < 500)

C15_Witness ==
    /\ Constructed1
    /\ PositionalStatus(arg.val) = {400}
    /\ Supplied(arg.val, "expose") = Some(FALSE)
    /\ ~heap[out.ref].expose

\* C16: for a status s, a message m and further options o, the four calls
\* (s, m, o), (s, {message: m, ...o}), (m, {status: s, ...o}) and
\* ({status: s, message: m, ...o}) make errors with equal fields, or fail
\* all four.
SameOutcome(r1, r2) ==
    /\ r1.thrown = r2.thrown
    /\ IF r1.thrown THEN r1.error = r2.error ELSE r1.value = r2.value

\* The last operation was the call (s, m, o), o without status and message.
ConstructedFromAll ==
    /\ op = "new"
    /\ arg.val[1].kind = "number"
    /\ arg.val[2].kind = "string"
    /\ Supplied(arg.val, "status") = None
    /\ Supplied(arg.val, "message") = None

C16_CallShapesAgree ==
    ConstructedFromAll
      => LET s == Some(arg.val[1].val)
             m == Some(arg.val[2].val)
             o == IF arg.val[3].kind = "options" THEN arg.val[3].val ELSE NoOptions
             r == NewHttpError(arg.val[1], arg.val[2], arg.val[3])
         IN  /\ r.thrown <=> out.tag = "throw"
             /\ ~r.thrown => heap[out.ref] = r.value
             /\ SameOutcome(r, NewHttpError(arg.val[1],
                                            Opts([o EXCEPT !.message = m]),
                                            Undefined))
             /\ SameOutcome(r, NewHttpError(arg.val[2],
                                            Opts([o EXCEPT !.status = s]),
                                            Undefined))
             /\ SameOutcome(r, NewHttpError(
                                   Opts([o EXCEPT !.status = s, !.message = m]),
                                   Undefined, Undefined))

C16_Witness ==
    /\ Constructed1
    /\ arg.val[1] = Num(400)
    /\ arg.val[2] = Str("m1")
    /\ arg.val[3].kind = "options"
    /\ Supplied(arg.val, "expose") = Some(FALSE)
    /\ Supplied(arg.val, "type") = Some("/t")
    /\ heap[out.ref].message = "m1"
    /\ heap[out.ref].type = Some("/t")

\* The entries of the headers given in the call: none when none are given.
GivenHeaders(args) ==
    IF Supplied(args, "headers") = None THEN EmptyObject
    ELSE Get(Supplied(args, "headers")).entries

\* C17: the headers of every HttpError have a content-type; it is
\* application/problem+json when the caller gave no headers or headers
\* without one, and the caller's when the caller gave one in any letter
\* case; every other header given is there unchanged, for a plain mapping
\* and for a Headers value alike.
C17_ContentType ==
    /\ \A ref \in 1..Len(heap) : "content-type" \in DOMAIN heap[ref].headers
    /\ Constructed1
         => LET given == GivenHeaders(arg.val)
                names == {LowerCase(k) : k \in DOMAIN given}
                y == heap[out.ref].headers
            IN  /\ DOMAIN y = names \cup {"content-type"}
                /\ \A k \in DOMAIN given : y[LowerCase(k)] = given[k]
                /\ "content-type" \notin names
                     => y["content-type"] = "application/problem+json"

C17_Witness ==
    /\ Constructed1
    /\ DOMAIN GivenHeaders(arg.val) = {"Content-Type"}
    /\ Get(Supplied(arg.val, "headers")).kind = "record"
    /\ heap[out.ref].headers["content-type"] = "text/plain"

\* C18: getResponse returns a response with the status of the error, its
\* statusText when set, its headers, and a body that is the JSON text of
\* toJSON(): parsing the body gives a value equal to toJSON().
C18_GetResponse ==
    op = "getResponse"
      => /\ out.tag # "throw"
         /\ response # None
         /\ Get(response).status = heap[arg.val].status
         /\ Get(response).statusText = heap[arg.val].statusText
         /\ Get(response).headers = heap[arg.val].headers
         /\ ~JSONparse(Get(response).body).thrown
         /\ JSONparse(Get(response).body).value.val = toJSON(heap[arg.val])

\* The last operation was a construction with a class of createHttpErrorClass.
ConstructedCustom == op = "newCustom" /\ out.tag = "ref"

\* The defaults of the class: the field f, undefined when there is none.
ClassDefault(f) == IF arg.val.defaults = None THEN None ELSE Get(arg.val.defaults)[f]

\* The field f as the chain resolves it: the positional argument, else the
\* option of the call, else the default of the class.
ChainResolved(f) ==
    IF f = "status" /\ PositionalStatus(arg.val.args) # {}
    THEN PositionalStatus(arg.val.args)
    ELSE IF f = "message" /\ PositionalMessage(arg.val.args) # {}
    THEN PositionalMessage(arg.val.args)
    ELSE IF Supplied(arg.val.args, f) # None
    THEN Supplied(arg.val.args, f)
    ELSE ClassDefault(f)

\* C19: every field but the extensions of an instance of a class of
\* createHttpErrorClass is the positional argument, else the option of the
\* call, else the default of the class, else the default of HttpError, in
\* each call shape; the headers are taken whole.
C19_DefaultsChain ==
    op = "newCustom"
      => LET r == HttpErrorInit("CustomHttpError",
                                [f \in OptionFields |->
                                    IF f = "extensions" THEN None
                                    ELSE ChainResolved(f)])
         IN  /\ r.thrown <=> out.tag = "throw"
             /\ ~r.thrown
                  => [heap[out.ref] EXCEPT !.extensions = EmptyObject] = r.value

\* C20: the extensions of such an instance are the default extensions of
\* the class merged with those of the call: every key of either, the value
\* of the call where it has the key, and else the default.
C20_ExtensionsMerged ==
    ConstructedCustom
      => LET dflt == OrElse(ClassDefault("extensions"), EmptyObject)
             inst == OrElse(Supplied(arg.val.args, "extensions"), EmptyObject)
             y == heap[out.ref].extensions
         IN  /\ DOMAIN y = (DOMAIN dflt) \cup (DOMAIN inst)
             /\ \A k \in DOMAIN inst : y[k] = inst[k]
             /\ \A k \in (DOMAIN dflt) \ (DOMAIN inst) : y[k] = dflt[k]

C20_Witness ==
    /\ ConstructedCustom
    /\ ClassDefault("extensions") # None
    /\ DOMAIN Get(ClassDefault("extensions")) = {"code"}
    /\ Supplied(arg.val.args, "extensions") # None
    /\ DOMAIN Get(Supplied(arg.val.args, "extensions")) = {"code", "type"}
    /\ heap[out.ref].extensions["code"] = "X"
    /\ heap[out.ref].extensions["type"] = "/ext-type"

HasPayloadShape(value) ==
    /\ value.kind = "object"
    /\ \E k \in {"status", "title", "type"} : k \in DOMAIN value.val

\* The last operation was from on a value that is no error and no Response:
\* the branch taken is the one the payload-shape predicate chooses.
FromOfPlainValue ==
    op = "from" /\ arg.kind \notin {"HttpError", "Error", "Response"}

\* C23: the payload-shape predicate is true exactly of the non-null objects
\* that have at least one of the keys status, title and type; it is false
\* of {}, of null, of primitives and of objects with other keys only, so
\* that from wraps those as unexpected values.
C23_PayloadShape ==
    FromOfPlainValue
      => /\ isProblemDetails(arg) <=> HasPayloadShape(arg)
         /\ out.tag = "throw" => HasPayloadShape(arg)
         /\ out.tag = "ref"
              => (heap[out.ref].message = "unexpected error type"
                    <=> ~HasPayloadShape(arg))

C23_Witness ==
    /\ FromOfPlainValue
    /\ arg.kind = "object"
    /\ DOMAIN arg.val = {"detail", "instance", "code"}
    /\ out.tag = "ref"
    /\ heap[out.ref].message = "unexpected error type"

\* The promise of from on a Response has resolved, and the body of the
\* Response failed to parse or parsed to a value that is no payload.
ResolvedFromMalformed ==
    /\ Resolved
    /\ \/ chain.json.state = "rejected"
       \/ chain.json.state = "fulfilled" /\ ~isProblemDetails(chain.json.val)

C25_OptionsOnlyResolved ==
    op = "new"
      => LET init == optionsFromArgs(arg.val[1], arg.val[2], arg.val[3])
         IN  /\ PositionalStatus(arg.val) = {} /\ Supplied(arg.val, "status") # None
                  => init.status = Supplied(arg.val, "status")
             /\ PositionalMessage(arg.val) = {} /\ Supplied(arg.val, "message") # None
                  => init.message = Supplied(arg.val, "message")

\* C27: from on a Response resolves to an HttpError with the message 'could
\* not parse problem details response' only when reading or parsing the body
\* failed, and its cause is then that failure; a body that parses never
\* gives this message.
C27_CouldNotParseOnlyOnParseFailure ==
    Resolved
      /\ heap[chain.catch.val.val].message = "could not parse problem details response"
      => /\ chain.json.state = "rejected"
         /\ ReadCause(heap[chain.catch.val.val]) = chain.json.val

\* The payload that toJSON returned, and the error it was taken from.
PayloadTaken == op = "toJSON" /\ json # None

\* C29 as stated: the payload of toJSON has a type key exactly when the
\* error has a type, and an instance key exactly when it has an instance,
\* with the values of the error, whatever the extensions hold.
C29_TypeInstanceIffSet ==
    PayloadTaken
      => LET x == heap[jsonOf]
             p == Get(json)
         IN  \A k \in {"type", "instance"} :
                /\ k \in DOMAIN p <=> x[k] # None
                /\ x[k] # None => p[k] = Get(x[k])

\* C29, amended: the payload has a type (resp. instance) key exactly when
\* the error has a type (resp. instance) or its extensions have a key of
\* that name; the value is the error's when it has one, and the extension's
\* otherwise.
C29_TypeInstanceIffSetOrExtension ==
    PayloadTaken
      => LET x == heap[jsonOf]
             p == Get(json)
         IN  \A k \in {"type", "instance"} :
                /\ k \in DOMAIN p <=> (x[k] # None \/ k \in DOMAIN x.extensions)
                /\ x[k] # None => p[k] = Get(x[k])
                /\ x[k] = None /\ k \in DOMAIN x.extensions
                     => p[k] = x.extensions[k]

C29_Witness ==
    /\ PayloadTaken
    /\ heap[jsonOf].type = None
    /\ "type" \in DOMAIN heap[jsonOf].extensions
    /\ Get(json)["type"] = "/ext-type"

\* The detail of x survives from: x.exposedMessage is the default of the
\* status, or the status is below 500 and x.exposedMessage is not empty.
DetailSurvives(x) ==
    \/ x.exposedMessage = SafeDefault(x.status)
    \/ x.status < 500 /\ x.exposedMessage # ""

\* The extensions of x hold no empty type or instance that x does not set
\* itself.
NoEmptyTypeInstance(x) ==
    \A k \in {"type", "instance"} :
        k \in DOMAIN x.extensions /\ x[k] = None => x.extensions[k] # ""

\* The last operation was from on the payload of such an x of a status in
\* 400..599.
FromOfStablePayload ==
    /\ FromOfPayload
    /\ InErrorRange(heap[jsonOf].status)
    /\ DetailSurvives(heap[jsonOf])
    /\ NoEmptyTypeInstance(heap[jsonOf])

\* C30 as stated: for every HttpError x of a status in 400..599, whatever
\* its expose and exposedMessage, from(x.toJSON()).toJSON() equals
\* x.toJSON().
C30_PayloadStable ==
    FromOfPayload /\ InErrorRange(heap[jsonOf].status)
      => /\ out.tag = "ref"
         /\ toJSON(heap[out.ref]) = Get(json)

\* C30, amended: the same for every such x whose exposedMessage is the
\* default message of its status or, with a status below 500, is not empty,
\* and whose extensions hold no empty type or instance that x does not set
\* itself.
C30_PayloadStableWhenDetailSurvives ==
    FromOfStablePayload
      => /\ out.tag = "ref"
         /\ toJSON(heap[out.ref]) = Get(json)

C30_Witness ==
    /\ FromOfPayload
    /\ out.tag = "ref"
    /\ heap[jsonOf].status = 400
    /\ heap[jsonOf].exposedMessage = "safe"
    /\ DOMAIN heap[jsonOf].extensions = {"code", "type"}
    /\ toJSON(heap[out.ref]) = Get(json)

\* C21: construction has no side effect but the initialisation of the new
\* error: after new HttpError(...) in any call shape the extensions and the
\* header map that the caller passed in, a header map without a content
\* type included, are as they were passed.
C21_ArgumentsUnchanged ==
    op = "new"
      => /\ caller.headers = Supplied(arg.val, "headers")
         /\ caller.extensions = Supplied(arg.val, "extensions")

\* C28: errors share no state that can change: when the headers or the
\* extensions of one error change, the headers and extensions of every other
\* error, of the default options of the class and of the values passed in
\* stay as they were.
C28_NoSharedMutableState ==
    [][op' = "change"
         => /\ \A ref \in 1..Len(heap) :
                  ref # arg'.val
                    => /\ heap'[ref].headers = heap[ref].headers
                       /\ heap'[ref].extensions = heap[ref].extensions
            /\ caller'.headers = caller.headers
            /\ caller'.extensions = caller.extensions
            /\ caller'.classHeaders = caller.classHeaders
            /\ caller'.classExtensions = caller.classExtensions]_vars

\* The body read of the Response has completed or failed, and the promise
\* that from returned is pending.
BodyReadDone ==
    chain.json.state \in {"fulfilled", "rejected"} /\ chain.catch.state = "pending"

\* The promise that from returned is fulfilled with an HttpError.
FulfilledWithHttpError ==
    /\ chain.catch.state = "fulfilled"
    /\ chain.catch.val.kind = "HttpError"
    /\ chain.catch.val.val \in 1..Len(heap)
    /\ InErrorRange(heap[chain.catch.val.val].status)

\* C26: the promise that from returns for a Response is never rejected, and
\* once the body read has completed or failed it is eventually fulfilled
\* with an HttpError: so when the read fails, when the body is no JSON, when
\* the JSON is no payload, and when the status of the payload, or failing
\* that of the Response, is outside 400..599.
C26_PromiseSettlesFulfilled ==
    /\ [](chain.catch.state # "rejected")
    /\ BodyReadDone ~> FulfilledWithHttpError

C26_Witness ==
    /\ FulfilledWithHttpError
    /\ chain.json.state = "fulfilled"
    /\ chain.then.state = "rejected"
    /\ chain.then.val = RangeError

====
